---- MODULE Spec2Model ----
(***************************************************************************)
(* A model of the Delta F1 API (src/main.py): the four data endpoints      *)
(* /api/races, /api/drivers, /api/races/upto and /api/race/{round}, each   *)
(* of which awaits one GET to the Ergast upstream, transforms the answer   *)
(* and responds.                                                           *)
(*                                                                         *)
(* Strings that the code parses are modelled by what the parser makes of   *)
(* them:                                                                   *)
(*   - a date string is a tuple: <<d>> is the date-only form "YYYY-MM-DD"  *)
(*     of day d, <<d, t>> the form "YYYY-MM-DDTHH:MM:SS" of day d at time  *)
(*     of day t, and <<>> a string datetime.fromisoformat rejects;         *)
(*   - a datetime value is the pair <<day, time of day>>, ordered          *)
(*     lexicographically;                                                  *)
(*   - a round string is a TLA+ string; int() accepts decimal numerals     *)
(*     (with a leading zero too) and rejects the others.                   *)
(* Fields that are copied verbatim or looked up and that no handler reads   *)
(* (raceName, circuitName, url, the colour set, the image urls) are left   *)
(* out of the records. The year query parameter only selects the URL of    *)
(* the GET; the upstream's answer is unconstrained, so it is left out too. *)
(***************************************************************************)
EXTENDS Integers, Sequences, FiniteSets, TLC

\* ------------------------------------------------------------ bounds
\* Longest race list the upstream answers with.
MaxRaces == 3
\* Longest driver list the upstream answers with.
MaxDrivers == 3
\* Days of the season are 1..MaxDay; the clock reads days 0..MaxDay+1.
MaxDay == 3
\* Requests in flight at once in the concurrent specification.
NumReqs == 2

\* Times of day: 0 is midnight, 1 is later in the day.
TimesOfDay == {0, 1}
Days == 1..MaxDay
\* The values datetime.now() can read.
Instants == (0..(MaxDay + 1)) \X TimesOfDay

\* ------------------------------------------------------------ tables
COUNTRY_CODE_MAP ==
    ("Australia" :> "au") @@ ("Bahrain" :> "bh") @@ ("Saudi Arabia" :> "sa") @@
    ("Japan" :> "jp") @@ ("China" :> "cn") @@ ("United States" :> "us") @@
    ("Italy" :> "it") @@ ("Monaco" :> "mc") @@ ("Canada" :> "ca") @@
    ("Spain" :> "es") @@ ("Austria" :> "at") @@ ("UK" :> "gb") @@
    ("Hungary" :> "hu") @@ ("Belgium" :> "be") @@ ("Netherlands" :> "nl") @@
    ("Singapore" :> "sg") @@ ("Azerbaijan" :> "az") @@ ("Mexico" :> "mx") @@
    ("Brazil" :> "br") @@ ("Qatar" :> "qa") @@ ("UAE" :> "ae") @@ ("USA" :> "us")

DRIVER_TEAM_MAP ==
    ("ALB" :> "Williams Racing") @@ ("SAI" :> "Williams Racing") @@
    ("VER" :> "Red Bull Racing") @@ ("TSU" :> "Red Bull Racing") @@
    ("HAM" :> "Ferrari") @@ ("LEC" :> "Ferrari") @@
    ("NOR" :> "McLaren Racing") @@ ("PIA" :> "McLaren Racing") @@
    ("RUS" :> "Mercedes") @@ ("ANT" :> "Mercedes") @@
    ("ALO" :> "Aston Martin") @@ ("STR" :> "Aston Martin") @@
    ("BEA" :> "Haas F1 Team") @@ ("OCO" :> "Haas F1 Team") @@
    ("GAS" :> "Alpine F1 Team") @@ ("COL" :> "Alpine F1 Team") @@
    ("HAD" :> "RB F1 Team") @@ ("LAW" :> "RB F1 Team") @@
    ("BOR" :> "Kick Sauber") @@ ("HUL" :> "Kick Sauber")

\* ------------------------------------------------------------ parsing
\* dict.get(key, default)
DictGet(d, key, default) == IF key \in DOMAIN d THEN d[key] ELSE default

\* datetime.fromisoformat: a date-only string is midnight of its day.
fromisoformat(s) ==
    IF Len(s) = 1 THEN [ok |-> TRUE, dt |-> <<s[1], 0>>]
    ELSE IF Len(s) = 2 THEN [ok |-> TRUE, dt |-> <<s[1], s[2]>>]
    ELSE [ok |-> FALSE, dt |-> <<>>]

\* datetime <= datetime
DtLeq(a, b) == a[1] < b[1] \/ (a[1] = b[1] /\ a[2] <= b[2])

\* Python's int(str): the numerals of 0..MaxRaces+1, "02" with its leading
\* zero, and a ValueError for anything else.
int(s) ==
    IF \E n \in 0..(MaxRaces + 1) : ToString(n) = s
    THEN [ok |-> TRUE, val |-> CHOOSE n \in 0..(MaxRaces + 1) : ToString(n) = s]
    ELSE IF s = "02" THEN [ok |-> TRUE, val |-> 2]
    ELSE [ok |-> FALSE, val |-> 0]

\* list.reverse()
Reverse(s) == [i \in 1..Len(s) |-> s[Len(s) + 1 - i]]

\* ------------------------------------------------------------ transform
\* Mutant: a miss falls back to the country name, not to the sentinel.
get_country_code_or_name(country) == DictGet(COUNTRY_CODE_MAP, country, country)

get_country_code(country) == DictGet(COUNTRY_CODE_MAP, country, "F1")

\* The result of a call that may raise.
Raised == [raised |-> TRUE, value |-> <<>>]
Returned(v) == [raised |-> FALSE, value |-> v]

\* Mutant: the date is joined with the time field (midnight when absent).
transform_ergast_race_joining_time(ergast_race, index) ==
    LET race_date == fromisoformat(ergast_race.date)
        rnd == int(ergast_race.round)
    IN  IF ~race_date.ok \/ ~rnd.ok THEN Raised
        ELSE Returned([id |-> rnd.val,
                       round |-> rnd.val,
                       country |-> ergast_race.country,
                       countryCode |-> DictGet(COUNTRY_CODE_MAP, ergast_race.country, "F1"),
                       date |-> IF ergast_race.time = <<>>
                                THEN <<race_date.dt[1], 0>>
                                ELSE <<race_date.dt[1], ergast_race.time[1]>>])

transform_ergast_race_to_race(ergast_race, index) ==
    LET race_date == fromisoformat(ergast_race.date)
        rnd == int(ergast_race.round)
    IN  IF ~race_date.ok \/ ~rnd.ok THEN Raised
        ELSE Returned([id |-> rnd.val,
                       round |-> rnd.val,
                       country |-> ergast_race.country,
                       countryCode |-> get_country_code(ergast_race.country),
                       date |-> ergast_race.date])

\* The seed of CPython's str hash, drawn once when the process starts.
VARIABLE hash_seed
HashSeeds == {0, 1}

\* hash(str): a function of the string and of the process's seed; these are
\* sample values, negative ones among them.
hash(s) ==
    CASE s = "VER" -> 47 - 100 * hash_seed
      [] s = "HAM" -> 12 * hash_seed - 5
      [] OTHER -> 31 + 9 * hash_seed

\* Python's a % b for b > 0: the result is in 0..b-1 for a negative a too.
PyMod(a, b) == a % b

base_cost == 30

\* get_driver_image_url indexes given_name[0]: an IndexError on an empty name.
get_driver_image_url_raises(given_name) == given_name = ""

transform_ergast_driver_to_driver(ergast_driver) ==
    LET driver_code == ergast_driver.code
        team_name == DictGet(DRIVER_TEAM_MAP, driver_code, "None")
    IN  IF team_name = "None" \/ get_driver_image_url_raises(ergast_driver.givenName)
        THEN Raised
        ELSE Returned([driverCode |-> driver_code,
                       cost |-> base_cost,
                       driverName |-> <<ergast_driver.givenName, ergast_driver.familyName>>,
                       teamName |-> team_name,
                       \* in tenths: round((hash(driver_code) % 21 - 10) / 10, 1)
                       deltaCost |-> PyMod(hash(driver_code), 21) - 10])

\* ------------------------------------------------------------ upstream
\* What one GET to the upstream ends in. net: the transport's outcome
\* ("ok", or an httpx.HTTPError: "neterr", "timeout"); status: the HTTP
\* status of an answer; shape: whether the body is JSON ("notjson") and fits
\* the Ergast envelope and record models ("badshape"); recs: the records.
Answer(net, status, shape, recs) ==
    [net |-> net, status |-> status, shape |-> shape, recs |-> recs]

\* Mutant: raise_for_status raising on 4xx and 5xx only.
is_success_below_400(status) == status < 400

\* Response.is_success, which raise_for_status tests.
is_success(status) == 200 <= status /\ status <= 299

\* fastapi.HTTPException(status_code, detail)
HTTPException(status_code, detail) ==
    [status |-> status_code, body |-> <<>>, detail |-> detail]
\* A handler's return value, serialised with status 200.
Ok(body) == [status |-> 200, body |-> body, detail |-> ""]

\* ------------------------------------------------------------ fetchers
\* Mutant: a record that fails to transform is skipped.
fetch_races_partial(ans) ==
    IF ans.net # "ok" \/ ~is_success(ans.status)
    THEN HTTPException(503, "Failed to fetch races from Ergast API")
    ELSE IF ans.shape # "ok"
    THEN HTTPException(500, "Error processing race data")
    ELSE LET good == SelectSeq(ans.recs,
                         LAMBDA rec : ~transform_ergast_race_to_race(rec, 0).raised)
         IN  Ok([i \in 1..Len(good) |->
                    transform_ergast_race_to_race(good[i], i - 1).value])

fetch_races_from_ergast(ans) ==
    IF ans.net # "ok" \/ ~is_success(ans.status)
    THEN HTTPException(503, "Failed to fetch races from Ergast API")
    ELSE IF ans.shape # "ok"
    THEN HTTPException(500, "Error processing race data")
    ELSE IF \E i \in 1..Len(ans.recs) :
                transform_ergast_race_to_race(ans.recs[i], i - 1).raised
    THEN HTTPException(500, "Error processing race data")
    ELSE Ok([i \in 1..Len(ans.recs) |->
                transform_ergast_race_to_race(ans.recs[i], i - 1).value])

\* Mutant: the comprehension has no `if driver.code in DRIVER_TEAM_MAP`.
fetch_drivers_unfiltered(ans) ==
    IF ans.net # "ok" \/ ~is_success(ans.status)
    THEN HTTPException(503, "Failed to fetch drivers from Ergast API")
    ELSE IF ans.shape # "ok"
    THEN HTTPException(500, "Error processing driver data")
    ELSE IF \E i \in 1..Len(ans.recs) :
                transform_ergast_driver_to_driver(ans.recs[i]).raised
    THEN HTTPException(500, "Error processing driver data")
    ELSE Ok([i \in 1..Len(ans.recs) |->
                transform_ergast_driver_to_driver(ans.recs[i]).value])

fetch_drivers_from_ergast(ans) ==
    IF ans.net # "ok" \/ ~is_success(ans.status)
    THEN HTTPException(503, "Failed to fetch drivers from Ergast API")
    ELSE IF ans.shape # "ok"
    THEN HTTPException(500, "Error processing driver data")
    ELSE LET kept == SelectSeq(ans.recs,
                         LAMBDA driver : driver.code \in DOMAIN DRIVER_TEAM_MAP)
         IN  IF \E i \in 1..Len(kept) :
                    transform_ergast_driver_to_driver(kept[i]).raised
             THEN HTTPException(500, "Error processing driver data")
             ELSE Ok([i \in 1..Len(kept) |->
                        transform_ergast_driver_to_driver(kept[i]).value])

\* ------------------------------------------------------------ handlers
get_races(ans) == fetch_races_from_ergast(ans)

get_drivers(ans) == fetch_drivers_from_ergast(ans)

\* Mutant: `added` is never set, so every future race is appended.
RECURSIVE upto_loop_all_future(_, _, _, _, _)
upto_loop_all_future(races, i, current_date, added, output) ==
    IF i > Len(races) THEN output
    ELSE IF DtLeq(fromisoformat(races[i].date).dt, current_date)
    THEN upto_loop_all_future(races, i + 1, current_date, added, Append(output, races[i]))
    ELSE IF ~added
    THEN upto_loop_all_future(races, i + 1, current_date, added, Append(output, races[i]))
    ELSE upto_loop_all_future(races, i + 1, current_date, added, output)

\* Mutant: the comparison is < where the code has <=.
RECURSIVE upto_loop_strict(_, _, _, _, _)
upto_loop_strict(races, i, current_date, added, output) ==
    IF i > Len(races) THEN output
    ELSE IF fromisoformat(races[i].date).dt # current_date
            /\ DtLeq(fromisoformat(races[i].date).dt, current_date)
    THEN upto_loop_strict(races, i + 1, current_date, added, Append(output, races[i]))
    ELSE IF ~added
    THEN upto_loop_strict(races, i + 1, current_date, TRUE, Append(output, races[i]))
    ELSE upto_loop_strict(races, i + 1, current_date, added, output)

\* The for loop of get_upto_next_races from position i on.
RECURSIVE upto_loop(_, _, _, _, _)
upto_loop(races, i, current_date, added, output) ==
    IF i > Len(races) THEN output
    ELSE IF DtLeq(fromisoformat(races[i].date).dt, current_date)
    THEN upto_loop(races, i + 1, current_date, added, Append(output, races[i]))
    ELSE IF ~added
    THEN upto_loop(races, i + 1, current_date, TRUE, Append(output, races[i]))
    ELSE upto_loop(races, i + 1, current_date, added, output)

\* Mutant: output.reverse() is missing.
get_upto_next_races_unreversed(ans, current_date) ==
    LET races == fetch_races_from_ergast(ans)
    IN  IF races.status # 200 THEN races
        ELSE Ok(upto_loop(races.body, 1, current_date, FALSE, <<>>))

get_upto_next_races(ans, current_date) ==
    LET races == get_races(ans)
    IN  IF races.status # 200 THEN races
        ELSE IF \E i \in 1..Len(races.body) : ~fromisoformat(races.body[i].date).ok
        THEN HTTPException(500, "Internal Server Error")
        ELSE Ok(Reverse(upto_loop(races.body, 1, current_date, FALSE, <<>>)))

\* The first race of the list with that id, 0 when there is none.
FirstWithId(races, round) ==
    IF \E i \in 1..Len(races) : races[i].id = round
    THEN CHOOSE i \in 1..Len(races) :
            /\ races[i].id = round
            /\ \A j \in 1..(i - 1) : races[j].id # round
    ELSE 0

\* Mutant: the round is used as a position of the list.
get_race_by_position(ans, round) ==
    LET races == fetch_races_from_ergast(ans)
    IN  IF races.status # 200 THEN races
        ELSE IF round \in 1..Len(races.body)
        THEN Ok(<<races.body[round]>>)
        ELSE HTTPException(404, "Race not found")

get_race(ans, round) ==
    LET races == get_races(ans)
    IN  IF races.status # 200 THEN races
        ELSE IF FirstWithId(races.body, round) # 0
        THEN Ok(<<races.body[FirstWithId(races.body, round)]>>)
        ELSE HTTPException(404, "Race not found")

\* ------------------------------------------------------------ inputs
\* All sequences over S of length at most n.
SeqsUpTo(S, n) == UNION {[1..k -> S] : k \in 0..n}

\* An Ergast race record; time is <<>> when the field is absent, <<t>> when
\* it names the time of day t.
ErgastRace(round, country, date, time) ==
    [round |-> round, country |-> country, date |-> date, time |-> time]

\* An Ergast driver record.
ErgastDriver(code, givenName, familyName) ==
    [code |-> code, givenName |-> givenName, familyName |-> familyName]

\* Date strings: a malformed one, the date-only form of every day, and the
\* date-time form of the last day later in the day.
DateStrs == {<<>>} \cup {<<d>> : d \in Days} \cup {<<MaxDay, 1>>}
RoundStrs == {"1", "2", "02", "x"}
Countries == {"Italy", "UK", "italy", "Atlantis"}
DriverCodes == {"VER", "HAM", "ver", "XXX"}
GivenNames == {"Max", ""}

\* Race lists with rounds 1, 2, ... in place, over all date strings.
DateLists ==
    {[i \in 1..Len(ds) |-> ErgastRace(ToString(i), "Italy", ds[i], <<>>)] :
        ds \in SeqsUpTo(DateStrs, MaxRaces)}
\* Race lists with rounds in place and in ascending date order, over
\* date-only strings and all values of the optional time field.
TimeLists ==
    {[i \in 1..Len(ps) |-> ErgastRace(ToString(i), "Italy", <<ps[i][1]>>, ps[i][2])] :
        ps \in {qs \in SeqsUpTo(Days \X {<<>>, <<1>>}, MaxRaces) :
                    \A i \in 1..(Len(qs) - 1) : qs[i][1] <= qs[i + 1][1]}}
\* Race lists over all round strings.
RoundLists ==
    {[i \in 1..Len(rs) |-> ErgastRace(rs[i], "Italy", <<1>>, <<>>)] :
        rs \in SeqsUpTo(RoundStrs, MaxRaces)}
\* Race lists over all country names.
CountryLists ==
    {[i \in 1..Len(cs) |-> ErgastRace(ToString(i), cs[i], <<1>>, <<>>)] :
        cs \in SeqsUpTo(Countries, MaxRaces)}
RaceLists == DateLists \cup TimeLists \cup RoundLists \cup CountryLists

DriverLists ==
    {[i \in 1..Len(ds) |-> ErgastDriver(ds[i][1], ds[i][2], "Doe")] :
        ds \in SeqsUpTo(DriverCodes \X GivenNames, MaxDrivers)}

\* The answers that carry no records: transport failures, non-2xx statuses,
\* and 2xx answers whose body is not JSON or does not fit the models.
FailedAnswers ==
    {Answer("neterr", 0, "ok", <<>>), Answer("timeout", 0, "ok", <<>>),
     Answer("ok", 302, "ok", <<>>), Answer("ok", 404, "ok", <<>>),
     Answer("ok", 500, "ok", <<>>),
     Answer("ok", 200, "notjson", <<>>), Answer("ok", 200, "badshape", <<>>)}

RaceAnswers == FailedAnswers \cup {Answer("ok", 200, "ok", l) : l \in RaceLists}
DriverAnswers == FailedAnswers \cup {Answer("ok", 200, "ok", l) : l \in DriverLists}

\* A failure and a list of each kind, for the runs with several requests in
\* flight.
FewRaceAnswers ==
    {Answer("neterr", 0, "ok", <<>>),
     Answer("ok", 200, "ok", <<ErgastRace("1", "Italy", <<1>>, <<>>),
                               ErgastRace("2", "UK", <<2>>, <<>>)>>)}
FewDriverAnswers ==
    {Answer("timeout", 0, "ok", <<>>),
     Answer("ok", 200, "ok", <<ErgastDriver("VER", "Max", "Doe"),
                               ErgastDriver("XXX", "Max", "Doe")>>)}

Endpoints == {"races", "drivers", "upto", "race"}
\* The round path parameter of /api/race/{round}.
RoundParams == 1..(MaxRaces + 1)
Reqs == 1..NumReqs

\* ------------------------------------------------------------ state
VARIABLES
    pc,        \* pc[r]: "idle", "awaiting" (suspended in client.get), "done"
    endpoint,  \* endpoint[r]: the route of request r
    param,     \* param[r]: the round path parameter (0 when the route has none)
    calls,     \* calls[r]: outbound GETs issued for request r
    upstream,  \* upstream[r]: what the GET of request r ended in
    now,       \* now[r]: the clock reading of the handler (<<>> when not read)
    resp       \* resp[r]: the response of request r

vars == <<hash_seed, pc, endpoint, param, calls, upstream, now, resp>>

NoAnswer == Answer("none", 0, "none", <<>>)
NoResp == [status |-> 0, body |-> <<>>, detail |-> ""]

Init ==
    /\ hash_seed \in HashSeeds
    /\ pc = [r \in Reqs |-> "idle"]
    /\ endpoint = [r \in Reqs |-> "none"]
    /\ param = [r \in Reqs |-> 0]
    /\ calls = [r \in Reqs |-> 0]
    /\ upstream = [r \in Reqs |-> NoAnswer]
    /\ now = [r \in Reqs |-> <<>>]
    /\ resp = [r \in Reqs |-> NoResp]

\* The handler of route ep, run on the upstream's answer and the clock reading.
Handle(ep, round, ans, current_date) ==
    CASE ep = "races" -> get_races(ans)
      [] ep = "drivers" -> get_drivers(ans)
      [] ep = "upto" -> get_upto_next_races(ans, current_date)
      [] ep = "race" -> get_race(ans, round)

\* A request arrives: its handler runs up to `await client.get(url,
\* timeout=10.0)`, which issues the one outbound call.
Receive(r, ep, round) ==
    /\ pc[r] = "idle"
    /\ pc' = [pc EXCEPT ![r] = "awaiting"]
    /\ endpoint' = [endpoint EXCEPT ![r] = ep]
    /\ param' = [param EXCEPT ![r] = IF ep = "race" THEN round ELSE 0]
    /\ calls' = [calls EXCEPT ![r] = calls[r] + 1]
    /\ UNCHANGED <<hash_seed, upstream, now, resp>>

\* Mutant: a GET that ends in a transport failure is issued once more.
UpstreamReplyWithRetry(r, ans, t) ==
    /\ pc[r] = "awaiting"
    /\ IF ans.net # "ok" /\ calls[r] < 2
       THEN /\ calls' = [calls EXCEPT ![r] = calls[r] + 1]
            /\ UNCHANGED <<hash_seed, pc, endpoint, param, upstream, now, resp>>
       ELSE /\ pc' = [pc EXCEPT ![r] = "done"]
            /\ upstream' = [upstream EXCEPT ![r] = ans]
            /\ now' = [now EXCEPT ![r] =
                        IF endpoint[r] = "upto" /\ get_races(ans).status = 200
                        THEN t ELSE <<>>]
            /\ resp' = [resp EXCEPT ![r] = Handle(endpoint[r], param[r], ans, t)]
            /\ UNCHANGED <<hash_seed, endpoint, param, calls>>

\* The awaited GET ends in ans (a timeout after 10 s is one of its ends);
\* the handler runs to its end: /api/races/upto reads the clock, once, when
\* get_races has returned.
UpstreamReply(r, ans, t) ==
    /\ pc[r] = "awaiting"
    /\ pc' = [pc EXCEPT ![r] = "done"]
    /\ upstream' = [upstream EXCEPT ![r] = ans]
    /\ now' = [now EXCEPT ![r] =
                IF endpoint[r] = "upto" /\ get_races(ans).status = 200
                THEN t ELSE <<>>]
    /\ resp' = [resp EXCEPT ![r] = Handle(endpoint[r], param[r], ans, t)]
    /\ UNCHANGED <<hash_seed, endpoint, param, calls>>

\* The response is sent and the request is over.
Deliver(r) ==
    /\ pc[r] = "done"
    /\ pc' = [pc EXCEPT ![r] = "idle"]
    /\ endpoint' = [endpoint EXCEPT ![r] = "none"]
    /\ param' = [param EXCEPT ![r] = 0]
    /\ calls' = [calls EXCEPT ![r] = 0]
    /\ upstream' = [upstream EXCEPT ![r] = NoAnswer]
    /\ now' = [now EXCEPT ![r] = <<>>]
    /\ resp' = [resp EXCEPT ![r] = NoResp]
    /\ UNCHANGED hash_seed

\* The steps of the requests R, the upstream answering races with RA and
\* drivers with DA.
NextOf(R, RA, DA) ==
    \E r \in R :
        \/ /\ pc[r] = "idle"
           /\ \E ep \in Endpoints, round \in RoundParams : Receive(r, ep, round)
        \/ /\ pc[r] = "awaiting"
           /\ \E ans \in (IF endpoint[r] = "drivers" THEN DA ELSE RA),
                 t \in (IF endpoint[r] = "upto" THEN Instants ELSE {<<>>}) :
                    UpstreamReply(r, ans, t)
        \/ Deliver(r)

\* One request at a time, over every answer of the upstream.
Next == NextOf({1}, RaceAnswers, DriverAnswers)
Spec == Init /\ [][Next]_vars

\* All requests interleaved, over a few answers of each kind.
NextConc == NextOf(Reqs, FewRaceAnswers, FewDriverAnswers)
SpecConc == Init /\ [][NextConc]_vars

\* ------------------------------------------------------------ properties
Range(s) == {s[i] : i \in 1..Len(s)}

\* Request r has been answered on route ep.
DoneOn(r, ep) == pc[r] = "done" /\ endpoint[r] = ep

\* The upstream answered request r with a 2xx status and a well-formed body.
GotRecords(r) ==
    /\ upstream[r].net = "ok"
    /\ upstream[r].status \in 200..299
    /\ upstream[r].shape = "ok"

\* The race list the fetcher returned to the handler of request r.
FetchedOk(r) == fetch_races_from_ergast(upstream[r]).status = 200
FetchedRaces(r) == fetch_races_from_ergast(upstream[r]).body

\* The date of a race is at or before t.
IsPast(race, t) == DtLeq(fromisoformat(race.date).dt, t)

\* The positions /api/races/upto is to keep: every past-or-present race and
\* the first future one.
Selection(races, t) ==
    {i \in 1..Len(races) :
        IsPast(races[i], t) \/ \A j \in 1..(i - 1) : IsPast(races[j], t)}

\* The k-th smallest element of the set of numbers I.
Kth(I, k) == CHOOSE i \in I : Cardinality({j \in I : j <= i}) = k

\* The races at the positions I, latest position first.
LatestFirst(races, I) ==
    [k \in 1..Cardinality(I) |-> races[Kth(I, Cardinality(I) + 1 - k)]]

\* C1: GET /api/races/upto answers with the races dated at or before now
\* and the first race dated after now, in reversed input order, each once;
\* an empty race list gives an empty output.
C1_UptoSelection ==
    \A r \in Reqs :
        (DoneOn(r, "upto") /\ FetchedOk(r)) =>
            /\ resp[r].status = 200
            /\ resp[r].body = LatestFirst(FetchedRaces(r),
                                          Selection(FetchedRaces(r), now[r]))
            /\ (Len(FetchedRaces(r)) = 0 => resp[r].body = <<>>)

\* A past race is kept, the next race is kept and a later one is dropped.
C1_Witness ==
    \E r \in Reqs :
        /\ DoneOn(r, "upto") /\ FetchedOk(r)
        /\ Len(FetchedRaces(r)) = 3
        /\ IsPast(FetchedRaces(r)[1], now[r])
        /\ ~IsPast(FetchedRaces(r)[2], now[r])
        /\ ~IsPast(FetchedRaces(r)[3], now[r])
        /\ Len(resp[r].body) = 2

\* C2: when every race of a non-empty list is dated after now,
\* GET /api/races/upto answers with the first race of the list alone.
C2_SeasonNotStarted ==
    \A r \in Reqs :
        (/\ DoneOn(r, "upto") /\ FetchedOk(r)
         /\ Len(FetchedRaces(r)) > 0
         /\ \A i \in 1..Len(FetchedRaces(r)) : ~IsPast(FetchedRaces(r)[i], now[r]))
        => resp[r].body = <<FetchedRaces(r)[1]>>

C2_Witness ==
    \E r \in Reqs :
        /\ DoneOn(r, "upto") /\ FetchedOk(r)
        /\ Len(FetchedRaces(r)) = 3
        /\ \A i \in 1..3 : ~IsPast(FetchedRaces(r)[i], now[r])
        /\ resp[r].body = <<FetchedRaces(r)[1]>>

\* C3: when every race is dated at or before now, GET /api/races/upto
\* answers with the whole list reversed: same length, nothing dropped or
\* added.
C3_SeasonOver ==
    \A r \in Reqs :
        (/\ DoneOn(r, "upto") /\ FetchedOk(r)
         /\ \A i \in 1..Len(FetchedRaces(r)) : IsPast(FetchedRaces(r)[i], now[r]))
        => /\ Len(resp[r].body) = Len(FetchedRaces(r))
           /\ \A k \in 1..Len(resp[r].body) :
                resp[r].body[k] = FetchedRaces(r)[Len(FetchedRaces(r)) + 1 - k]

\* Three past races, the last two dated exactly now.
C3_Witness ==
    \E r \in Reqs :
        /\ DoneOn(r, "upto") /\ FetchedOk(r)
        /\ Len(FetchedRaces(r)) = 3
        /\ \A i \in 1..3 : IsPast(FetchedRaces(r)[i], now[r])
        /\ fromisoformat(FetchedRaces(r)[2].date).dt = now[r]
        /\ fromisoformat(FetchedRaces(r)[3].date).dt = now[r]
        /\ Len(resp[r].body) = 3

\* C4: GET /api/race/{round}, the fetch having succeeded, answers with the
\* first race of the list whose id is the round, and with 404 "Race not
\* found" when no race has it.
C4_RaceByRound ==
    \A r \in Reqs :
        (DoneOn(r, "race") /\ FetchedOk(r)) =>
            LET races == FetchedRaces(r)
                hits == {i \in 1..Len(races) : races[i].id = param[r]}
            IN  IF hits = {}
                THEN /\ resp[r].status = 404
                     /\ resp[r].detail = "Race not found"
                     /\ resp[r].body = <<>>
                ELSE /\ resp[r].status = 200
                     /\ resp[r].body = <<races[Kth(hits, 1)]>>

\* A list of several races, none with the round asked for.
C4_Witness ==
    \E r \in Reqs :
        /\ DoneOn(r, "race") /\ FetchedOk(r)
        /\ Len(FetchedRaces(r)) >= 2
        /\ \A i \in 1..Len(FetchedRaces(r)) : FetchedRaces(r)[i].id # param[r]
        /\ resp[r].status = 404

\* C5: a GET of fetchRaces or fetchDrivers that ends in a network failure,
\* a timeout or a non-2xx status makes the request end with 503, whatever
\* the route: never 200, never 500; and the timeout can end the wait of
\* every waiting request.
C5_UpstreamFailureIs503 ==
    \A r \in Reqs :
        /\ (pc[r] = "done" /\ (upstream[r].net # "ok" \/ upstream[r].status \notin 200..299))
            => (resp[r].status = 503 /\ resp[r].body = <<>>)
        /\ (pc[r] = "awaiting" =>
                ENABLED UpstreamReply(r, Answer("timeout", 0, "ok", <<>>), <<>>))

\* The upstream redirected the drivers request.
C5_Witness ==
    \E r \in Reqs :
        /\ DoneOn(r, "drivers")
        /\ upstream[r].net = "ok" /\ upstream[r].status = 302
        /\ resp[r].status = 503

\* A race record, or a driver record the filter keeps, fails to transform.
RaceRecordFails(rec) == transform_ergast_race_to_race(rec, 0).raised
DriverKept(rec) == rec.code \in DOMAIN DRIVER_TEAM_MAP
DriverRecordFails(rec) == transform_ergast_driver_to_driver(rec).raised
KeptDrivers(recs) == SelectSeq(recs, DriverKept)

\* C6: a 2xx answer whose envelope, or any one record of which, fails to
\* parse or transform makes the whole request fail with 500 and no list; a
\* list is returned only when every accepted record was transformed, one
\* output per accepted record.
C6_NoPartialSuccess ==
    \A r \in Reqs :
        (pc[r] = "done" /\ upstream[r].net = "ok" /\ upstream[r].status \in 200..299) =>
            LET recs == upstream[r].recs
                accepted == IF endpoint[r] = "drivers" THEN KeptDrivers(recs) ELSE recs
                fails(rec) == IF endpoint[r] = "drivers" THEN DriverRecordFails(rec)
                              ELSE RaceRecordFails(rec)
            IN  IF upstream[r].shape # "ok" \/ \E i \in 1..Len(accepted) : fails(accepted[i])
                THEN resp[r].status = 500 /\ resp[r].body = <<>>
                ELSE endpoint[r] \in {"races", "drivers"} =>
                        (resp[r].status = 200 /\ Len(resp[r].body) = Len(accepted))

\* One race of three has a malformed date.
C6_Witness ==
    \E r \in Reqs :
        /\ DoneOn(r, "races") /\ GotRecords(r)
        /\ Len(upstream[r].recs) = 3
        /\ Cardinality({i \in 1..3 : upstream[r].recs[i].date = <<>>}) = 1
        /\ resp[r].status = 500
        /\ resp[r].body = <<>>

\* C7: GET /api/drivers returns exactly the upstream drivers whose code is a
\* key of DRIVER_TEAM_MAP, in upstream order, each with the team the table
\* names; the only other outcome of a well-formed answer is the 500 of a
\* kept driver that fails to transform.
C7_DriversFiltered ==
    \A r \in Reqs :
        (DoneOn(r, "drivers") /\ GotRecords(r)) =>
            LET kept == KeptDrivers(upstream[r].recs)
            IN  IF \E i \in 1..Len(kept) : kept[i].givenName = ""
                THEN resp[r].status = 500 /\ resp[r].body = <<>>
                ELSE /\ resp[r].status = 200
                     /\ Len(resp[r].body) = Len(kept)
                     /\ \A i \in 1..Len(kept) :
                            /\ resp[r].body[i].driverCode = kept[i].code
                            /\ resp[r].body[i].driverCode \in DOMAIN DRIVER_TEAM_MAP
                            /\ resp[r].body[i].teamName = DRIVER_TEAM_MAP[kept[i].code]

\* Drivers outside the table stand before and between drivers in it.
C7_Witness ==
    \E r \in Reqs :
        /\ DoneOn(r, "drivers") /\ GotRecords(r)
        /\ Len(upstream[r].recs) = 3
        /\ upstream[r].recs[1].code \notin DOMAIN DRIVER_TEAM_MAP
        /\ upstream[r].recs[2].code \in DOMAIN DRIVER_TEAM_MAP
        /\ upstream[r].recs[3].code \notin DOMAIN DRIVER_TEAM_MAP
        /\ resp[r].status = 200
        /\ Len(resp[r].body) = 1

\* C8: every race a race endpoint returns has the code COUNTRY_CODE_MAP
\* maps its country name to, "F1" when the name is no key of the table, and
\* an id equal to its round; the name and the round are those of an
\* upstream record.
C8_CountryCodeAndId ==
    \A r \in Reqs :
        (pc[r] = "done" /\ endpoint[r] \in {"races", "upto", "race"}) =>
            \A k \in 1..Len(resp[r].body) :
                LET race == resp[r].body[k]
                IN  /\ race.country \in DOMAIN COUNTRY_CODE_MAP
                        => race.countryCode = COUNTRY_CODE_MAP[race.country]
                    /\ race.country \notin DOMAIN COUNTRY_CODE_MAP
                        => race.countryCode = "F1"
                    /\ race.id = race.round
                    /\ \E i \in 1..Len(upstream[r].recs) :
                            /\ upstream[r].recs[i].country = race.country
                            /\ int(upstream[r].recs[i].round).val = race.id

\* A name of the table, and the same name in another case, which is no key.
C8_Witness ==
    \E r \in Reqs :
        /\ DoneOn(r, "races")
        /\ Len(resp[r].body) >= 2
        /\ resp[r].body[1].country = "Italy" /\ resp[r].body[1].countryCode = "it"
        /\ resp[r].body[2].country = "italy" /\ resp[r].body[2].countryCode = "F1"

\* The date and time of day a race is scheduled at: its date field, with
\* its time field when it has one.
ScheduledAt(rec) ==
    IF rec.time = <<>> THEN fromisoformat(rec.date).dt
    ELSE <<fromisoformat(rec.date).dt[1], rec.time[1]>>

SelectionByScheduledAt(recs, t) ==
    {i \in 1..Len(recs) :
        DtLeq(ScheduledAt(recs[i]), t)
        \/ \A j \in 1..(i - 1) : DtLeq(ScheduledAt(recs[j]), t)}

\* C9 as stated: /api/races/upto classifies each race by its date together
\* with its time of day, so that a race scheduled later today than now is a
\* future race.
C9_AsStated ==
    \A r \in Reqs :
        (DoneOn(r, "upto") /\ FetchedOk(r)) =>
            resp[r].body = LatestFirst(FetchedRaces(r),
                                SelectionByScheduledAt(upstream[r].recs, now[r]))

\* C9 (amended): now is read once, and each race is classified by its date
\* field alone, parsed as a date-time (midnight for a date-only string) and
\* compared with now; the time field is not consulted, so a race of today
\* is past-or-present whatever its time of day: every race whose date
\* field is at or before now is returned, and with them one future race when
\* there is one.
C9_ClassifiedByDateField ==
    \A r \in Reqs :
        (DoneOn(r, "upto") /\ FetchedOk(r)) =>
            LET recs == upstream[r].recs
                past == {i \in 1..Len(recs) :
                            DtLeq(fromisoformat(recs[i].date).dt, now[r])}
            IN  /\ \A i \in past :
                      \E k \in 1..Len(resp[r].body) :
                          /\ resp[r].body[k].date = recs[i].date
                          /\ resp[r].body[k].round = int(recs[i].round).val
                /\ Len(resp[r].body) =
                      Cardinality(past) + (IF past = 1..Len(recs) THEN 0 ELSE 1)

\* A race of today, scheduled later than now, is returned as a past race,
\* after the next race.
C9_Witness ==
    \E r \in Reqs :
        /\ DoneOn(r, "upto") /\ FetchedOk(r)
        /\ Len(upstream[r].recs) = 3
        /\ upstream[r].recs[1].date = <<now[r][1]>>
        /\ upstream[r].recs[1].time = <<1>>
        /\ now[r][2] = 0
        /\ Len(resp[r].body) = 2
        /\ resp[r].body[2].round = 1

\* The state of request r.
ReqState(r) ==
    <<pc[r], endpoint[r], param[r], calls[r], upstream[r], now[r], resp[r]>>

\* C10: a request issues one outbound call, and no second one, before it
\* responds; a step of one request changes nothing of another, nor anything
\* the requests share (the hash seed of the process); and two requests with
\* the same route, parameter, upstream answer and clock reading get the same
\* response, however they interleave.
C10_Independent ==
    /\ [](\A r \in Reqs :
            /\ calls[r] <= 1
            /\ (pc[r] \in {"awaiting", "done"} => calls[r] = 1)
            /\ \A q \in Reqs :
                (/\ pc[r] = "done" /\ pc[q] = "done"
                 /\ endpoint[r] = endpoint[q] /\ param[r] = param[q]
                 /\ upstream[r] = upstream[q] /\ now[r] = now[q])
                => resp[r] = resp[q])
    /\ [][/\ hash_seed' = hash_seed
          /\ \A r \in Reqs : pc'[r] = pc[r] => ReqState(r)' = ReqState(r)]_vars

\* Two requests of the same route in flight together, answered alike.
C10_Witness ==
    \E r, q \in Reqs :
        /\ r # q
        /\ DoneOn(r, "upto") /\ DoneOn(q, "upto")
        /\ upstream[r] = upstream[q] /\ now[r] = now[q]
        /\ resp[r].status = 200 /\ Len(resp[r].body) = 2
        /\ calls[r] = 1 /\ calls[q] = 1

====
